---- MODULE Spec2Model ----
(***************************************************************************)
(* A model of the Sugar shell's presence-service facade                    *)
(* (src/src/sugar/presence/presenceservice.py), of the battery device view *)
(* (src/shell/view/devices/battery.py), of the journal's view              *)
(* (src/src/jarabe/journal/newview.py) and of the display's tray icon      *)
(* (src/extensions/deviceicon/brightness.py).                              *)
(*                                                                         *)
(* Python values are records with a "type" field, so that any two of them  *)
(* can be compared; an operation that raises leaves the exception's class  *)
(* name in result.exc, and "" there means it returned result.val.          *)
(***************************************************************************)
EXTENDS Naturals, Integers, Sequences, FiniteSets

(* ---------------------------------------------------------------- bounds *)

\* bus events delivered to the PresenceService callbacks in one run
MaxEvents == 2
\* Telepathy accounts known to the connection manager / account manager
NumAccounts == 2
\* the battery levels the model reports are this many steps from 0 to 100 percent
LevelSteps == 10
\* the greatest maximum brightness a display reports
MaxBrightness == 15

(* ----------------------------------------------------------- environment *)

BuddyPaths == {"/org/laptop/Sugar/Presence/Buddies/1"}
ActivityPaths == {"/org/laptop/Sugar/Presence/Activities/1"}
Paths == BuddyPaths \cup ActivityPaths \cup {"/org/laptop/Sugar/Other/1"}
Messages == {"join us"}
Channels ==
  {[bus_name |-> "org.freedesktop.Telepathy.Connection.gabble",
    connection |-> "/org/freedesktop/Telepathy/Connection/gabble",
    channel |-> "/org/freedesktop/Telepathy/Connection/gabble/Channel1",
    chan_type |-> "org.freedesktop.Telepathy.Channel.Type.Text"]}
Accounts == 1..NumAccounts
\* the contact handles and the activity ids asked for
Handles == {1}
ActivityIds == {1, 2}

\* D-Bus object paths of the accounts and of their connections, the contact
\* ids behind the contact handles
AccountPath(a) == [account |-> a]
ConnectionPath(a) == [connection |-> a]
NoConnectionPath == [connection |-> 0]
ContactId(h) == [contact |-> h]

\* The room of a shared activity on a connection, and the activity of a room:
\* GetActivity(activity_id) names the room whose activity has that id.
RoomOf(activity_id) == activity_id + Cardinality(ActivityIds)
ActivityOfRoom(room_handle) == room_handle - Cardinality(ActivityIds)
RoomHandles == {RoomOf(a) : a \in ActivityIds}

(* ---------------------------------------------------------------- values *)

None == [type |-> "None"]
PyFalse == [type |-> "bool", value |-> FALSE]
PyList(items) == [type |-> "list", items |-> items]
PresenceServiceObj(n) == [type |-> "PresenceService", oid |-> n]
\* The outcome of a call: the operation, its arguments, the exception raised
\* ("" when it returned) and the value returned or the exception's argument.
Result(op, arg, exc, val) == [op |-> op, arg |-> arg, exc |-> exc, val |-> val]
NoArgs == [none |-> TRUE]
NoResult == Result("", NoArgs, "", None)

VARIABLES
  _ps,              \* the module global _ps: 0 is None, n > 0 the n-th PresenceService
  instances,        \* PresenceService objects constructed so far
  returned_ps,      \* history: what get_instance has returned, per argument
  _activity_cache,  \* self._activity_cache
  _buddy_cache,     \* self._buddy_cache: (account_path, contact_id) -> Buddy
  _objcache,        \* self._objcache: object path -> proxy (read by the code, never bound)
  next_oid,         \* the next fresh Python object's identity
  delivered,        \* history: the bus events delivered to the callbacks, in order
  idle,             \* the main loop's idle queue: tasks added by gobject.idle_add
  ran,              \* history: how often each idle task has been dispatched
  emitted,          \* history: the GObject signals emitted, in order
  effects,          \* the handler calls and log records the last operation made
  result,           \* the outcome of the last operation
  model,            \* the battery model's properties level, charging, discharging
  notify,           \* whether the battery model has a notify:: signal to deliver
  view,             \* the battery DeviceView and its palette; built is FALSE before __init__
  newview,          \* the journal's NewView: _kids, _view_dict, _main_box, _label_box
  itemviews,        \* the journal's _ItemView objects, by identity
  brightness,       \* the brightness model: get_brightness() and get_max_brightness()
  trayicon          \* the brightness DeviceView: built, and its icon's icon_name

psvars == <<_ps, instances, returned_ps>>
cachevars == <<_activity_cache, _buddy_cache, _objcache, next_oid>>
loopvars == <<delivered, idle, ran, emitted>>
batteryvars == <<model, notify, view>>
journalvars == <<newview, itemviews>>
displayvars == <<brightness, trayicon>>
devicevars == <<batteryvars, journalvars, displayvars>>
vars == <<psvars, cachevars, loopvars, effects, result, devicevars>>

(* ------------------------------------------------ PresenceService.__init__ *)

\* The attributes __init__ binds on the instance.  No method of the class binds
\* any other, so a read of self._objcache, self._ps, self._bus,
\* self._PS_BUDDY_OP or self._PS_ACTIVITY_OP raises AttributeError.
InstanceAttrs == {"_activity_cache", "_buddy_cache"}

HasAttr(name) == name \in InstanceAttrs

EmptyDict == [k \in {} |-> None]

PyStr(s) == [type |-> "str", value |-> s]
PyUnicode(s) == [type |-> "unicode", value |-> s]
PyBool(b) == [type |-> "bool", value |-> b]

\* the state of a freshly constructed PresenceService
PresenceService_init ==
  /\ _activity_cache' = None
  /\ _buddy_cache' = EmptyDict
  /\ _objcache' = EmptyDict
  /\ next_oid' = 1

(* ----------------------------------------------------------- get_instance *)

Mut_get_instance(allow_offline_iface) ==
  /\ _ps' = instances + 1
  /\ instances' = instances + 1
  /\ instances < 3
  /\ PresenceService_init
  /\ returned_ps' = returned_ps \cup
       {[allow_offline_iface |-> allow_offline_iface, oid |-> _ps']}
  /\ result' = Result("get_instance", [allow_offline_iface |-> allow_offline_iface],
                     "", PresenceServiceObj(_ps'))
  /\ effects' = <<>>
  /\ UNCHANGED <<loopvars, devicevars>>

get_instance(allow_offline_iface) ==
  /\ IF _ps = 0
       THEN /\ _ps' = instances + 1
            /\ instances' = instances + 1
            /\ PresenceService_init
       ELSE UNCHANGED <<_ps, instances, cachevars>>
  /\ returned_ps' = returned_ps \cup
       {[allow_offline_iface |-> allow_offline_iface, oid |-> _ps']}
  /\ result' = Result("get_instance", [allow_offline_iface |-> allow_offline_iface],
                     "", PresenceServiceObj(_ps'))
  /\ effects' = <<>>
  /\ UNCHANGED <<loopvars, devicevars>>


(* ------------------------------------------------------------ _new_object *)

Buddy_proxy(oid, object_path) ==
  [type |-> "Buddy", oid |-> oid, object_path |-> object_path]
Activity_proxy(oid, object_path) ==
  [type |-> "Activity", oid |-> oid, object_path |-> object_path]

\* What a method that reads and changes the object cache hands back: the
\* exception it raised ("" when it returned), its return value, the cache and
\* the object counter it leaves behind, and the signals it emitted.
Outcome(exc, val, cache, oid, signals) ==
  [exc |-> exc, val |-> val, cache |-> cache, oid |-> oid, signals |-> signals,
   effects |-> <<>>]

\* a call of a caller-supplied handler, or a record written to the log
Effect(what, arg) == [what |-> what, arg |-> arg]
WithEffect(o, e) == [o EXCEPT !.effects = Append(@, e)]

Signal(name, args) == [signal |-> name, args |-> args]

\* _new_object(object_path) on the cache `cache`: the cached proxy, or a new
\* Buddy/Activity stored under the path.  self._objcache[...] is the first
\* thing evaluated: with the attribute unbound it raises AttributeError, which
\* "except KeyError" does not catch.
_new_object(cache, oid, object_path) ==
  IF ~HasAttr("_objcache")
    THEN Outcome("AttributeError", None, cache, oid, <<>>)
  ELSE IF object_path \in DOMAIN cache
    THEN Outcome("", cache[object_path], cache, oid, <<>>)
  ELSE IF ~HasAttr("_PS_BUDDY_OP")
    THEN Outcome("AttributeError", None, cache, oid, <<>>)
  ELSE IF object_path \in BuddyPaths
    THEN LET obj == Buddy_proxy(oid, object_path) IN
         Outcome("", obj, [p \in DOMAIN cache \cup {object_path} |->
                             IF p = object_path THEN obj ELSE cache[p]],
                 oid + 1, <<>>)
  ELSE IF ~HasAttr("_PS_ACTIVITY_OP")
    THEN Outcome("AttributeError", None, cache, oid, <<>>)
  ELSE IF object_path \in ActivityPaths
    THEN LET obj == Activity_proxy(oid, object_path) IN
         Outcome("", obj, [p \in DOMAIN cache \cup {object_path} |->
                             IF p = object_path THEN obj ELSE cache[p]],
                 oid + 1, <<>>)
  ELSE Outcome("RuntimeError", None, cache, oid, <<>>)

_have_object(cache, oid, object_path) ==
  IF ~HasAttr("_objcache")
    THEN Outcome("AttributeError", None, cache, oid, <<>>)
    ELSE Outcome("", PyBool(object_path \in DOMAIN cache),
                 cache, oid, <<>>)

(* ------------------------------------------- the idle tasks: _emit_*_signal *)

_emit_buddy_appeared_signal(cache, oid, object_path) ==
  LET r == _new_object(cache, oid, object_path) IN
  IF r.exc # "" THEN r
  ELSE Outcome("", PyFalse, r.cache, r.oid,
               <<Signal("buddy-appeared", <<r.val>>)>>)

_emit_buddy_disappeared_signal(cache, oid, object_path) ==
  LET h == _have_object(cache, oid, object_path) IN
  IF h.exc # "" THEN h
  ELSE IF h.val.value
    THEN Outcome("", PyFalse,
                 [p \in DOMAIN cache \ {object_path} |-> cache[p]], oid,
                 <<Signal("buddy-disappeared", <<cache[object_path]>>)>>)
    ELSE Outcome("", PyFalse, cache, oid, <<>>)

_emit_activity_invitation_signal(cache, oid, activity_path, buddy_path, message) ==
  LET a == _new_object(cache, oid, activity_path) IN
  IF a.exc # "" THEN a
  ELSE LET b == _new_object(a.cache, a.oid, buddy_path) IN
       IF b.exc # "" THEN b
       ELSE Outcome("", PyFalse, b.cache, b.oid,
                    <<Signal("activity-invitation",
                             <<a.val, b.val, PyUnicode(message)>>)>>)

_emit_private_invitation_signal(cache, oid, bus_name, connection, channel, chan_type) ==
  Outcome("", PyFalse, cache, oid,
          <<Signal("private-invitation",
                   <<PyStr(bus_name), PyStr(connection), PyStr(channel),
                     PyStr(chan_type)>>)>>)

_emit_activity_appeared_signal(cache, oid, object_path) ==
  LET r == _new_object(cache, oid, object_path) IN
  IF r.exc # "" THEN r
  ELSE Outcome("", PyFalse, r.cache, r.oid,
               <<Signal("activity-appeared", <<r.val>>)>>)

_emit_activity_disappeared_signal(cache, oid, object_path) ==
  LET r == _new_object(cache, oid, object_path) IN
  IF r.exc # "" THEN r
  ELSE Outcome("", PyFalse, r.cache, r.oid,
               <<Signal("activity-disappeared", <<r.val>>)>>)

(* ------------------------------------------------ the bus callbacks: _*_cb *)

\* gobject.idle_add(fn, *args): one more task at the end of the idle queue.
\* The task's number is its position among the events delivered.
idle_add(fn, args) ==
  /\ idle' = Append(idle, [tid |-> Len(delivered) + 1, fn |-> fn, args |-> args])
  /\ delivered' = Append(delivered, [fn |-> fn, args |-> args])
  /\ ran' = Append(ran, 0)

\* A bus signal reaches a callback of the PresenceService that exists.
BusEvent(cb) ==
  /\ _ps # 0
  /\ Len(delivered) < MaxEvents
  /\ result' = Result(cb, NoArgs, "", None)
  /\ effects' = <<>>
  /\ UNCHANGED <<psvars, cachevars, devicevars>>

_buddy_appeared_cb(op) ==
  /\ BusEvent("_buddy_appeared_cb")
  /\ idle_add("_emit_buddy_appeared_signal", <<op>>)
  /\ UNCHANGED emitted

_buddy_disappeared_cb(object_path) ==
  /\ BusEvent("_buddy_disappeared_cb")
  /\ idle_add("_emit_buddy_disappeared_signal", <<object_path>>)
  /\ UNCHANGED emitted

_activity_invitation_cb(activity_path, buddy_path, message) ==
  /\ BusEvent("_activity_invitation_cb")
  /\ idle_add("_emit_activity_invitation_signal",
              <<activity_path, buddy_path, message>>)
  /\ UNCHANGED emitted

Mut_private_invitation_cb(bus_name, connection, channel, chan_type) ==
  /\ BusEvent("_private_invitation_cb")
  /\ idle_add("_emit_private_invitation_signal",
              <<bus_name, connection, channel, chan_type>>)
  /\ emitted' = Append(emitted,
       [signal |-> "private-invitation",
        args |-> <<PyStr(bus_name), PyStr(connection), PyStr(channel),
                   PyStr(chan_type)>>,
        tid |-> 0])

_private_invitation_cb(bus_name, connection, channel, chan_type) ==
  /\ BusEvent("_private_invitation_cb")
  /\ idle_add("_emit_private_invitation_signal",
              <<bus_name, connection, channel, chan_type>>)
  /\ UNCHANGED emitted

_activity_appeared_cb(object_path) ==
  /\ BusEvent("_activity_appeared_cb")
  /\ idle_add("_emit_activity_appeared_signal", <<object_path>>)
  /\ UNCHANGED emitted

_activity_disappeared_cb(object_path) ==
  /\ BusEvent("_activity_disappeared_cb")
  /\ idle_add("_emit_activity_disappeared_signal", <<object_path>>)
  /\ UNCHANGED emitted

(* ------------------------------------------------------------ the main loop *)

\* the call the main loop makes for an idle task
RunTask(task, cache, oid) ==
  CASE task.fn = "_emit_buddy_appeared_signal" ->
         _emit_buddy_appeared_signal(cache, oid, task.args[1])
    [] task.fn = "_emit_buddy_disappeared_signal" ->
         _emit_buddy_disappeared_signal(cache, oid, task.args[1])
    [] task.fn = "_emit_activity_invitation_signal" ->
         _emit_activity_invitation_signal(cache, oid, task.args[1], task.args[2],
                                          task.args[3])
    [] task.fn = "_emit_private_invitation_signal" ->
         _emit_private_invitation_signal(cache, oid, task.args[1], task.args[2],
                                         task.args[3], task.args[4])
    [] task.fn = "_emit_activity_appeared_signal" ->
         _emit_activity_appeared_signal(cache, oid, task.args[1])
    [] task.fn = "_emit_activity_disappeared_signal" ->
         _emit_activity_disappeared_signal(cache, oid, task.args[1])

\* Whether the main loop keeps an idle task after a dispatch: only when the
\* call returned a true value.  A call that raised is reported and counts as
\* false.
KeepsSource(o) == o.exc = "" /\ o.val = PyBool(TRUE)

SignalsOf(task, o) ==
  [i \in 1..Len(o.signals) |->
     [signal |-> o.signals[i].signal, args |-> o.signals[i].args, tid |-> task.tid]]

\* One iteration of the main loop with a pending idle task: the oldest task is
\* effects; what it raises is printed by the loop and goes to no caller.
idle_dispatch ==
  /\ idle # <<>>
  /\ LET task == Head(idle)
         o == RunTask(task, _objcache, next_oid)
     IN /\ _objcache' = o.cache
        /\ next_oid' = o.oid
        /\ emitted' = emitted \o SignalsOf(task, o)
        /\ ran' = [ran EXCEPT ![task.tid] = IF @ < 2 THEN @ + 1 ELSE @]
        /\ idle' = IF KeepsSource(o) THEN Append(Tail(idle), task) ELSE Tail(idle)
        /\ result' = Result(task.fn, NoArgs, o.exc, o.val)
  /\ effects' = <<>>
  /\ UNCHANGED <<psvars, _activity_cache, _buddy_cache, delivered, devicevars>>


(* ---------------------------------------- get, get_activities, get_buddies *)

\* what a GetActivities or GetBuddies call on the bus may answer
PathLists == {<<>>} \cup {<<p>> : p \in Paths}
BusReplies ==
  {[exc |-> "DBusException", paths |-> <<>>]} \cup
  {[exc |-> "", paths |-> s] : s \in PathLists}

\* "for item in resp: acts.append(self._new_object(item))": the list of proxies
\* of `paths`, in order; an exception of _new_object ends the loop.
RECURSIVE NewObjects(_, _, _, _)
NewObjects(cache, oid, paths, acc) ==
  IF paths = <<>> THEN Outcome("", PyList(acc), cache, oid, <<>>)
  ELSE LET r == _new_object(cache, oid, Head(paths)) IN
       IF r.exc # "" THEN r
       ELSE NewObjects(r.cache, r.oid, Tail(paths), Append(acc, r.val))

\* an operation on the object cache has run to its outcome `o`
CacheOperation(op, arg, o) ==
  /\ _ps # 0
  /\ _objcache' = o.cache
  /\ next_oid' = o.oid
  /\ effects' = o.effects
  /\ result' = Result(op, arg, o.exc, o.val)
  /\ UNCHANGED <<psvars, _activity_cache, _buddy_cache, loopvars, devicevars>>

get(object_path) ==
  CacheOperation("get", [object_path |-> object_path],
                 _new_object(_objcache, next_oid, object_path))

\* get_activities(): self._ps.GetActivities() stands in no try block.
get_activities(reply) ==
  CacheOperation("get_activities", [reply |-> reply],
    IF ~HasAttr("_ps")
      THEN Outcome("AttributeError", None, _objcache, next_oid, <<>>)
    ELSE IF reply.exc # ""
      THEN Outcome(reply.exc, None, _objcache, next_oid, <<>>)
    ELSE NewObjects(_objcache, next_oid, reply.paths, <<>>))

\* get_buddies(): a DBusException of self._ps.GetBuddies() is logged and the
\* empty list returned.
get_buddies(reply) ==
  CacheOperation("get_buddies", [reply |-> reply],
    IF ~HasAttr("_ps")
      THEN Outcome("AttributeError", None, _objcache, next_oid, <<>>)
    ELSE IF reply.exc = "DBusException"
      THEN WithEffect(Outcome("", PyList(<<>>), _objcache, next_oid, <<>>),
                      Effect("_logger.exception", PyStr(reply.exc)))
    ELSE NewObjects(_objcache, next_oid, reply.paths, <<>>))

(* -------------------------------------------------------- _OfflineInterface *)

OfflineMethods ==
  {"GetActivities", "GetActivityById", "GetBuddies", "GetBuddyByPublicKey",
   "GetOwner", "GetPreferredConnection", "ShareActivity"}

\* caller-supplied callables: one that returns a value, one that raises
Callable(behaviour) == [type |-> "function", behaviour |-> behaviour]
Handlers == {Callable("returns"), Callable("raises")}

\* the value a handler that returns hands back, the exception one that raises
HandlerValue == PyStr("handled")

\* the argument lists tried on the stand-in's methods (ShareActivity is only
\* called with the six arguments of its signature)
ShareArgs(reply_handler, error_handler) ==
  <<PyStr("actid"), PyStr("atype"), PyStr("name"), [type |-> "dict"],
    reply_handler, error_handler>>
OfflineArgLists ==
  {<<>>} \cup
  {ShareArgs(Callable("returns"), e) : e \in Handlers \cup {None}}

\* the outcome of a call of a Python value with one argument
CallHandler(h, what, arg) ==
  IF h.type # "function"
    THEN [exc |-> "TypeError", val |-> None, effects |-> <<>>]
  ELSE IF h.behaviour = "raises"
    THEN [exc |-> "HandlerError", val |-> None, effects |-> <<Effect(what, arg)>>]
  ELSE [exc |-> "", val |-> HandlerValue, effects |-> <<Effect(what, arg)>>]

Mut_raiseException(args) ==
  IF args = <<>>
    THEN [exc |-> "", val |-> None, effects |-> <<>>]
    ELSE [exc |-> "DBusException",
          val |-> PyStr("PresenceService Interface not available"),
          effects |-> <<>>]

\* raiseException(self, *args, **named)
raiseException(args) ==
  [exc |-> "DBusException",
   val |-> PyStr("PresenceService Interface not available"),
   effects |-> <<>>]

\* ShareActivity(self, actid, atype, name, properties, reply_handler,
\* error_handler): six arguments, or the call itself raises TypeError.
ShareActivity(args) ==
  IF Len(args) # Len(ShareArgs(None, None))
    THEN [exc |-> "TypeError", val |-> None, effects |-> <<>>]
    ELSE CallHandler(args[Len(args)], "error_handler",
           [type |-> "IOError",
            value |-> "Unable to share activity as PresenceService is not currently available"])

_OfflineInterface_method(method, args) ==
  IF method = "ShareActivity" THEN ShareActivity(args) ELSE raiseException(args)

\* a client calls a method of an _OfflineInterface object
_OfflineInterface_call(method, args) ==
  /\ LET o == _OfflineInterface_method(method, args) IN
       /\ result' = Result(method, [args |-> args], o.exc, o.val)
       /\ effects' = o.effects
  /\ UNCHANGED <<psvars, cachevars, loopvars, devicevars>>

(* ------------------------------- get_activities_async, get_buddies_async *)

\* a Python value in a condition: None and the empty str are false, a function
\* is true
Truthy(v) == v.type # "None" /\ ("chars" \in DOMAIN v => v.chars # <<>>)

\* _get_activities_cb(reply_handler, resp) and _get_buddies_cb(reply_handler,
\* resp): the proxies of the paths in resp, then reply_handler(list); an
\* exception of _new_object ends the callback before the handler is called.
_get_activities_cb(cache, oid, reply_handler, resp) ==
  LET r == NewObjects(cache, oid, resp, <<>>) IN
  IF r.exc # "" THEN r
  ELSE LET h == CallHandler(reply_handler, "reply_handler", r.val) IN
       [r EXCEPT !.exc = h.exc, !.val = h.val, !.effects = h.effects]

_get_buddies_cb(cache, oid, reply_handler, resp) ==
  LET r == NewObjects(cache, oid, resp, <<>>) IN
  IF r.exc # "" THEN r
  ELSE LET h == CallHandler(reply_handler, "reply_handler", r.val) IN
       [r EXCEPT !.exc = h.exc, !.val = h.val, !.effects = h.effects]

\* _get_activities_error_cb(error_handler, e) and _get_buddies_error_cb
_get_activities_error_cb(cache, oid, error_handler, e) ==
  IF Truthy(error_handler)
    THEN LET h == CallHandler(error_handler, "error_handler", PyStr(e)) IN
         [Outcome(h.exc, h.val, cache, oid, <<>>) EXCEPT !.effects = h.effects]
    ELSE WithEffect(Outcome("", None, cache, oid, <<>>),
                    Effect("_logger.warn", PyStr(e)))

_get_buddies_error_cb(cache, oid, error_handler, e) ==
  IF Truthy(error_handler)
    THEN LET h == CallHandler(error_handler, "error_handler", PyStr(e)) IN
         [Outcome(h.exc, h.val, cache, oid, <<>>) EXCEPT !.effects = h.effects]
    ELSE WithEffect(Outcome("", None, cache, oid, <<>>),
                    Effect("_logger.warn", PyStr(e)))

\* The asynchronous call returns None once the bus call is under way, and the
\* bus runs one of the two callbacks on the reply; what a callback raises goes
\* to the bus library, not to the caller.
AsyncDone(cb) == [cb EXCEPT !.exc = "", !.val = None]

\* get_activities_async(reply_handler, error_handler), with the reply the bus
\* gives to GetActivities where the call is made.  Without a reply handler an
\* error is logged and nothing is called; self._ps is read before any call.
get_activities_async(reply_handler, error_handler, reply) ==
  CacheOperation("get_activities_async",
    [reply_handler |-> reply_handler, error_handler |-> error_handler,
     reply |-> reply],
    IF ~Truthy(reply_handler)
      THEN WithEffect(Outcome("", None, _objcache, next_oid, <<>>),
                      Effect("logging.error", PyStr("get_activities_async")))
    ELSE IF ~HasAttr("_ps")
      THEN Outcome("AttributeError", None, _objcache, next_oid, <<>>)
    ELSE IF reply.exc # ""
      THEN AsyncDone(_get_activities_error_cb(_objcache, next_oid, error_handler,
                                              reply.exc))
    ELSE AsyncDone(_get_activities_cb(_objcache, next_oid, reply_handler,
                                      reply.paths)))

get_buddies_async(reply_handler, error_handler, reply) ==
  CacheOperation("get_buddies_async",
    [reply_handler |-> reply_handler, error_handler |-> error_handler,
     reply |-> reply],
    IF ~Truthy(reply_handler)
      THEN WithEffect(Outcome("", None, _objcache, next_oid, <<>>),
                      Effect("logging.error", PyStr("get_buddies_async")))
    ELSE IF ~HasAttr("_ps")
      THEN Outcome("AttributeError", None, _objcache, next_oid, <<>>)
    ELSE IF reply.exc # ""
      THEN AsyncDone(_get_buddies_error_cb(_objcache, next_oid, error_handler,
                                           reply.exc))
    ELSE AsyncDone(_get_buddies_cb(_objcache, next_oid, reply_handler,
                                   reply.paths)))


(* ------------------------------------------ get_activity and its relatives *)

\* Activity(account_path, connection, room_handle=...): the activity of a room;
\* its props.id is the id of the room's activity.
Activity_of_room(oid, account_path, room_handle) ==
  [type |-> "Activity", oid |-> oid, account_path |-> account_path,
   room_handle |-> room_handle, id |-> ActivityOfRoom(room_handle)]

\* What a query hands back: as Outcome, with the activity cache and the buddy
\* cache it leaves behind.
QueryOutcome(exc, val, acache, bcache, oid, fx) ==
  [exc |-> exc, val |-> val, activity_cache |-> acache, buddy_cache |-> bcache,
   oid |-> oid, effects |-> fx]

\* a query has run to its outcome `o`
Query(op, arg, o) ==
  /\ _ps # 0
  /\ _activity_cache' = o.activity_cache
  /\ _buddy_cache' = o.buddy_cache
  /\ next_oid' = o.oid
  /\ effects' = o.effects
  /\ result' = Result(op, arg, o.exc, o.val)
  /\ UNCHANGED <<psvars, _objcache, loopvars, devicevars>>

\* What get_connections_per_account() hands back, in the order items() lists
\* it: per account whether its connection is connected and what its
\* GetActivity answers.
GetActivityAnswers ==
  {"room", "org.freedesktop.Telepathy.Error.NotAvailable",
   "org.freedesktop.DBus.Error.NoReply"}
AccountOrders ==
  {s \in UNION {[1..n -> Accounts] : n \in 0..NumAccounts} :
     \A i, j \in 1..Len(s) : i # j => s[i] # s[j]}
ConnectionsPerAccount ==
  UNION {[1..Len(s) ->
           [account : Accounts, connected : BOOLEAN, answer : GetActivityAnswers]]
         : s \in AccountOrders}
\* (a connection that is not connected is never asked: its answer is left at "room")
ConnectionLists ==
  {c \in ConnectionsPerAccount :
     /\ \A i, j \in 1..Len(c) : i # j => c[i].account # c[j].account
     /\ \A i \in 1..Len(c) : ~c[i].connected => c[i].answer = "room"}

RECURSIVE Mut_get_activity_loop(_, _, _, _)
Mut_get_activity_loop(conns, activity_id, oid, fx) ==
  IF conns = <<>>
    THEN QueryOutcome("", None, _activity_cache, _buddy_cache, oid, fx)
  ELSE LET c == Head(conns) IN
    IF ~c.connected
      THEN Mut_get_activity_loop(Tail(conns), activity_id, oid, fx)
    ELSE IF c.answer = "room"
      THEN LET activity == Activity_of_room(oid, AccountPath(c.account),
                                            RoomOf(activity_id)) IN
           QueryOutcome("", activity, activity, _buddy_cache, oid + 1, fx)
    ELSE Mut_get_activity_loop(Tail(conns), activity_id, oid,
           Append(fx, Effect("logging.debug", PyStr(c.answer))))

\* the loop of get_activity over the connections, from connection `conns[1]` on
RECURSIVE get_activity_loop(_, _, _, _)
get_activity_loop(conns, activity_id, oid, fx) ==
  IF conns = <<>>
    THEN QueryOutcome("", None, _activity_cache, _buddy_cache, oid, fx)
  ELSE LET c == Head(conns) IN
    IF ~c.connected
      THEN get_activity_loop(Tail(conns), activity_id, oid, fx)
    ELSE IF c.answer = "room"
      THEN LET activity == Activity_of_room(oid, AccountPath(c.account),
                                            RoomOf(activity_id)) IN
           QueryOutcome("", activity, activity, _buddy_cache, oid + 1, fx)
    ELSE IF c.answer = "org.freedesktop.Telepathy.Error.NotAvailable"
      THEN get_activity_loop(Tail(conns), activity_id, oid,
             Append(fx, Effect("logging.debug", PyStr(c.answer))))
    ELSE QueryOutcome("DBusException", PyStr(c.answer), _activity_cache,
                      _buddy_cache, oid, fx)

Mut_get_activity_outcome(activity_id, conns) ==
  IF _activity_cache # None
    THEN QueryOutcome("", _activity_cache, _activity_cache, _buddy_cache,
                      next_oid, <<>>)
    ELSE get_activity_loop(conns, activity_id, next_oid, <<>>)

get_activity_outcome(activity_id, conns) ==
  IF _activity_cache # None
    THEN IF _activity_cache.id # activity_id
           THEN QueryOutcome("RuntimeError",
                  PyStr("Activities can only access their own sharedinstance"),
                  _activity_cache, _buddy_cache, next_oid, <<>>)
           ELSE QueryOutcome("", _activity_cache, _activity_cache, _buddy_cache,
                             next_oid, <<>>)
    ELSE get_activity_loop(conns, activity_id, next_oid, <<>>)

get_activity(activity_id, conns) ==
  Query("get_activity", [activity_id |-> activity_id, conns |-> conns],
        get_activity_outcome(activity_id, conns))

Mut_get_activity_by_handle(connection_path, room_handle) ==
  Query("get_activity_by_handle",
    [connection_path |-> connection_path, room_handle |-> room_handle],
    LET activity == Activity_of_room(next_oid,
                      AccountPath(connection_path.connection), room_handle)
    IN QueryOutcome("", activity, activity, _buddy_cache, next_oid + 1, <<>>))

\* get_activity_by_handle(connection_path, room_handle): with an activity
\* tracked, that activity when its room_handle is the one asked for and
\* RuntimeError otherwise; with none, a new Activity of the room, tracked
get_activity_by_handle(connection_path, room_handle) ==
  Query("get_activity_by_handle",
    [connection_path |-> connection_path, room_handle |-> room_handle],
    IF _activity_cache # None
      THEN IF _activity_cache.room_handle # room_handle
             THEN QueryOutcome("RuntimeError",
                    PyStr("Activities can only access their own sharedinstance"),
                    _activity_cache, _buddy_cache, next_oid, <<>>)
             ELSE QueryOutcome("", _activity_cache, _activity_cache, _buddy_cache,
                               next_oid, <<>>)
      ELSE LET activity == Activity_of_room(next_oid,
                             AccountPath(connection_path.connection), room_handle)
           IN QueryOutcome("", activity, activity, _buddy_cache, next_oid + 1, <<>>))

(* --------------------------------------------------------- share_activity *)

\* the activity instances a caller shares: what get_id(), get_bundle_id() and
\* metadata hand back
SharingActivities ==
  {[id |-> i, bundle_id |-> PyStr("org.laptop.Chat"),
    title |-> PyStr("Chat"), icon_color |-> PyStr("#FF0000,#00FF00")]
   : i \in ActivityIds}

\* the properties a caller passes: None (the default), or a dict with an id
PropertyDicts == {[k \in {"id"} |-> i] : i \in ActivityIds}

\* the dict share_activity hands to Activity: the caller's entries, the missing
\* ones filled in from the activity, and 'private'
FilledProperties(activity, properties, private) ==
  LET given == IF properties = None THEN EmptyDict ELSE properties
      filled(k) ==
        IF k \in DOMAIN given THEN given[k]
        ELSE CASE k = "id" -> activity.id
               [] k = "type" -> activity.bundle_id
               [] k = "name" -> activity.title
               [] k = "color" -> activity.icon_color
  IN [k \in {"id", "type", "name", "color", "private"} |->
        IF k = "private" THEN PyBool(private) ELSE filled(k)]

\* Activity(account_path, connection, properties=...): an activity not yet in
\* a room; its props.id is the 'id' of its properties.
Activity_of_properties(oid, account_path, properties) ==
  [type |-> "Activity", oid |-> oid, account_path |-> account_path,
   room_handle |-> 0, id |-> properties["id"], properties |-> properties]

\* share_activity(activity, properties, private), with the account
\* get_preferred_connection() names: ValueError when an activity is tracked;
\* otherwise a new Activity is tracked and its share is started.
share_activity_outcome(activity, properties, private, preferred) ==
  IF _activity_cache # None
    THEN QueryOutcome("ValueError", PyStr("Activity %s is already tracked"),
                      _activity_cache, _buddy_cache, next_oid, <<>>)
    ELSE LET shared_activity ==
               Activity_of_properties(next_oid, AccountPath(preferred),
                                      FilledProperties(activity, properties, private))
         IN QueryOutcome("", None, shared_activity, _buddy_cache, next_oid + 1,
                         <<Effect("Activity.share", shared_activity)>>)

share_activity(activity, properties, private, preferred) ==
  Query("share_activity",
        [activity |-> activity, properties |-> properties, private |-> private,
         preferred |-> preferred],
        share_activity_outcome(activity, properties, private, preferred))

\* the 'activity-shared' signals emitted for the activity with identity oid
SharedSignals(oid) ==
  {i \in 1..Len(emitted) :
     emitted[i].signal = "activity-shared" /\ emitted[i].args[2].oid = oid}

\* The tracked activity's share has been started and neither of the two
\* callbacks handed to Activity.share has been called yet.
SharePending ==
  /\ _activity_cache # None
  /\ "properties" \in DOMAIN _activity_cache
  /\ SharedSignals(_activity_cache.oid) = {}

\* one of the callbacks of the pending share is called: the signal it emits
\* and the activity it leaves tracked
ShareCallback(cb, signal, tracked) ==
  /\ _ps # 0
  /\ SharePending
  /\ emitted' = Append(emitted, [signal |-> signal.signal, args |-> signal.args,
                                 tid |-> 0])
  /\ _activity_cache' = tracked
  /\ effects' = <<>>
  /\ result' = Result(cb, NoArgs, "", None)
  /\ UNCHANGED <<psvars, _buddy_cache, _objcache, next_oid, delivered, idle, ran,
                 devicevars>>

\* __share_activity_cb(activity)
__share_activity_cb ==
  ShareCallback("__share_activity_cb",
    Signal("activity-shared", <<PyBool(TRUE), _activity_cache, None>>),
    _activity_cache)

Mut_share_activity_error_cb(error) ==
  ShareCallback("__share_activity_error_cb",
    Signal("activity-shared", <<PyBool(FALSE), _activity_cache, PyStr(error)>>),
    None)

\* __share_activity_error_cb(activity, error)
__share_activity_error_cb(error) ==
  ShareCallback("__share_activity_error_cb",
    Signal("activity-shared", <<PyBool(FALSE), _activity_cache, PyStr(error)>>),
    _activity_cache)

(* -------------------------------------------------------------- get_buddy *)

Buddy(oid, account_path, contact_id) ==
  [type |-> "Buddy", oid |-> oid, account_path |-> account_path,
   contact_id |-> contact_id]

Mut_get_buddy_outcome(account_path, contact_id) ==
  LET key == <<account_path, contact_id>>
      buddy == Buddy(next_oid, account_path, contact_id)
  IN QueryOutcome("", buddy, _activity_cache,
       [k \in DOMAIN _buddy_cache \cup {key} |->
          IF k = key THEN buddy ELSE _buddy_cache[k]],
       next_oid + 1, <<>>)

\* get_buddy(account_path, contact_id): the Buddy cached under the pair, or a
\* new one, which is cached
get_buddy_outcome(account_path, contact_id) ==
  LET key == <<account_path, contact_id>> IN
  IF key \in DOMAIN _buddy_cache
    THEN QueryOutcome("", _buddy_cache[key], _activity_cache, _buddy_cache,
                      next_oid, <<>>)
    ELSE LET buddy == Buddy(next_oid, account_path, contact_id) IN
         QueryOutcome("", buddy, _activity_cache,
           [k \in DOMAIN _buddy_cache \cup {key} |->
              IF k = key THEN buddy ELSE _buddy_cache[k]],
           next_oid + 1, <<>>)

get_buddy(account_path, contact_id) ==
  Query("get_buddy", [account_path |-> account_path, contact_id |-> contact_id],
        get_buddy_outcome(account_path, contact_id))

\* What the account manager answers: the valid accounts in order, and per
\* account its Connection property: the path of its connection, or "/" when it
\* has none.
ValidAccountLists == AccountOrders
ConnectionMaps ==
  {c \in [Accounts -> {NoConnectionPath} \cup {ConnectionPath(a) : a \in Accounts}] :
     \A a \in Accounts : c[a] \in {NoConnectionPath, ConnectionPath(a)}}

\* the loop of get_buddy_by_telepathy_handle over the valid accounts
RECURSIVE telepathy_handle_loop(_, _, _, _)
telepathy_handle_loop(account_paths, conn_of, tp_conn_path, handle) ==
  IF account_paths = <<>>
    THEN QueryOutcome("ValueError", PyStr("Unknown buddy in connection %s with handle %d"),
                      _activity_cache, _buddy_cache, next_oid, <<>>)
  ELSE IF conn_of[Head(account_paths)] = tp_conn_path
    THEN get_buddy_outcome(AccountPath(Head(account_paths)), ContactId(handle))
  ELSE telepathy_handle_loop(Tail(account_paths), conn_of, tp_conn_path, handle)

get_buddy_by_telepathy_handle(tp_conn_path, handle, account_paths, conn_of) ==
  Query("get_buddy_by_telepathy_handle",
        [tp_conn_path |-> tp_conn_path, handle |-> handle,
         account_paths |-> account_paths, conn_of |-> conn_of],
        telepathy_handle_loop(account_paths, conn_of, tp_conn_path, handle))


(* ------------------------------------- shell/view/devices/battery.py *)

\* the battery model's observable properties
Levels == {(100 * k) \div LevelSteps : k \in 0..LevelSteps}
BatteryModels == [level : Levels, charging : BOOLEAN, discharging : BOOLEAN]

\* float(percent/100.0), as the ratio it is
Fraction(percent) == [num |-> percent, den |-> 100]

\* the text of the status label: the message and, where the code appends
\* ' (%s%%)' % self._level, the level it formats
LabelText(message, has_percent, percent) ==
  [message |-> message, has_percent |-> has_percent, percent |-> percent]

\* the icon name get_icon_state(_ICON_NAME, level) picks for a level
IconState(name, level) == [name |-> name, level |-> level]

NoView ==
  [built |-> FALSE, icon_name |-> IconState("", 0), _level |-> 0,
   fraction |-> Fraction(0), status |-> LabelText("", FALSE, 0)]

\* BatteryPalette.__init__: _level is 0, the bar and the label are new
BatteryPalette_init(v) ==
  [v EXCEPT !._level = 0, !.fraction = Fraction(0), !.status = LabelText("", FALSE, 0)]

update_progress_bar(v, percent) ==
  [v EXCEPT !._level = percent, !.fraction = Fraction(percent)]

update_charge_status(v, charging, discharging) ==
  [v EXCEPT !.status =
     IF charging THEN LabelText("Battery charging", TRUE, v._level)
     ELSE IF discharging THEN LabelText("Battery discharging", TRUE, v._level)
     ELSE LabelText("Battery fully charged", FALSE, 0)]

Mut_update_info(v, m) ==
  update_progress_bar(
    update_charge_status([v EXCEPT !.icon_name = IconState("device-battery", m.level)],
                         m.charging, m.discharging),
    m.level)

\* DeviceView._update_info on the model's current properties
_update_info(v, m) ==
  update_charge_status(
    update_progress_bar([v EXCEPT !.icon_name = IconState("device-battery", m.level)],
                        m.level),
    m.charging, m.discharging)

\* DeviceView.__init__(model)
DeviceView_init ==
  /\ ~view.built
  /\ view' = _update_info(BatteryPalette_init([view EXCEPT !.built = TRUE]), model)
  /\ notify' = FALSE
  /\ result' = Result("DeviceView.__init__", NoArgs, "", None)
  /\ UNCHANGED <<model, psvars, cachevars, loopvars, effects, journalvars, displayvars>>

\* The battery model changes its properties; the view's handlers are connected
\* once the view is built, and the notify:: signals go out to them.
ModelChange(m) ==
  /\ m # model
  /\ model' = m
  /\ notify' = view.built
  /\ UNCHANGED <<view, psvars, cachevars, loopvars, effects, result, journalvars, displayvars>>

\* notify::level, notify::charging or notify::discharging reaches the view
_battery_status_changed_cb ==
  /\ view.built
  /\ view' = _update_info(view, model)
  /\ notify' = FALSE
  /\ result' = Result("_battery_status_changed_cb", NoArgs, "", None)
  /\ UNCHANGED <<model, psvars, cachevars, loopvars, effects, journalvars, displayvars>>

(* ------------------------------------------ src/jarabe/journal/newview.py *)

\* a str as the sequence of its characters, and a field a mapping lacks
Chars(chars) == [type |-> "str", chars |-> chars]
Absent == [type |-> "absent"]

\* metadata.get('children', default): only this field is absent from some
\* entries
MetadataGet(field, default) == IF field = Absent THEN default ELSE field

\* what the journal model's entries hold: uid, title, timestamp, is_child and,
\* for some, the uids of their children joined by '|'
Uids == {"a", "b"}
Titles == {"Title 1", "Title 2"}
ChildrenFields == {Absent, Chars(<<"c">>), Chars(<<"c", "|", "d">>)}
\* (the entry "a" in all its versions, and "b", a child of another entry)
Metadata ==
  {m \in [uid : Uids, title : Titles, timestamp : {60},
          children : ChildrenFields, is_child : BOOLEAN] :
     /\ m.is_child <=> m.uid = "b"
     /\ m.is_child => (m.children = Absent /\ m.title = "Title 1")}

\* what model.find(query, 10) reads out: entries with different uids
ResultSets ==
  {<<>>} \cup {<<m>> : m \in Metadata} \cup
  {r \in {<<m, n>> : m, n \in Metadata} : r[1].uid # r[2].uid}

\* the queries: a search text ('' for none) and the mount point searched
DocumentsPath == "/home/olpc/Documents"
Queries ==
  [query : {"", "text"}, mountpoints : {"/", DocumentsPath, "/media/usb"}]

\* children_str.split('|')
RECURSIVE SplitFrom(_, _, _, _)
SplitFrom(rest, sep, current, done) ==
  IF rest = <<>> THEN Append(done, Chars(current))
  ELSE IF Head(rest) = sep
    THEN SplitFrom(Tail(rest), sep, <<>>, Append(done, Chars(current)))
  ELSE SplitFrom(Tail(rest), sep, Append(current, Head(rest)), done)

str_split(s, sep) == SplitFrom(s.chars, sep, <<>>, <<>>)

\* ExpandedView.rebuild(children_str): one row of the store per uid
ExpandedView_rebuild(ev, children_str) ==
  [ev EXCEPT !._store = str_split(children_str, "|")]

\* ExpandedView.__init__(children_str, ja)
ExpandedView_init(children_str) ==
  ExpandedView_rebuild([type |-> "ExpandedView", _store |-> <<>>, visible |-> FALSE],
                       children_str)

\* the text of the two labels, from the entry's title and timestamp
TitleMarkup(metadata) == [bold |-> metadata.title]
ElapsedString(metadata) == [elapsed |-> metadata.timestamp]

\* an attribute no statement has bound yet
Unbound == [type |-> "unbound"]

\* _ItemView.__init__(ja, metadata).  The fields shown, updated and
\* expanded_since are history: the metadata the view was last given, whether
\* update has given it, and whether the view has been expanded since.
ItemView_init(metadata) ==
  [_uid |-> metadata.uid,
   _children |-> MetadataGet(metadata.children, None),
   _childern |-> Unbound,
   _expanded_view |-> None,
   _is_expanded |-> FALSE,
   _expand |-> "go-down",
   _title_lab |-> TitleMarkup(metadata),
   _date_lab |-> ElapsedString(metadata),
   visible |-> FALSE,
   shown |-> metadata,
   updated |-> FALSE,
   expanded_since |-> FALSE]

\* _ItemView.update(metadata): the date, the title, and an attribute _childern
ItemView_update(v, metadata) ==
  [v EXCEPT !._date_lab = ElapsedString(metadata),
            !._title_lab = TitleMarkup(metadata),
            !._childern = MetadataGet(metadata.children, Chars(<<>>)),
            !.shown = metadata,
            !.updated = TRUE,
            !.expanded_since = FALSE]

\* _ItemView._expand_cb on the view v
ItemView_expand_cb(v) ==
  IF ~v._is_expanded
    THEN LET w == [v EXCEPT !._expand = "go-next", !._is_expanded = TRUE,
                            !.expanded_since = TRUE]
         IN IF v._expanded_view # None /\ Truthy(v._children)
              THEN [w EXCEPT !._expanded_view =
                      [ExpandedView_rebuild(v._expanded_view, v._children)
                         EXCEPT !.visible = TRUE]]
            ELSE IF Truthy(v._children)
              THEN [w EXCEPT !._expanded_view =
                      [ExpandedView_init(v._children) EXCEPT !.visible = TRUE]]
            ELSE w
    ELSE LET w == [v EXCEPT !._is_expanded = FALSE, !._expand = "go-down"]
         IN IF Truthy(v._children)
              THEN [w EXCEPT !._expanded_view = [v._expanded_view EXCEPT !.visible = FALSE]]
              ELSE w

\* NewView.__init__(ja)
NewView_init ==
  [_kids |-> <<>>, _view_dict |-> EmptyDict, _main_box |-> <<>>, _label_box |-> None]

\* the children of _main_box are the identities of item views, and LabelBox
\* for the current _label_box
LabelBox == 0

Without(seq, S) == SelectSeq(seq, LAMBDA x : x \notin S)
\* box.pack_start(child): a widget that is inside a container is not added again
pack_start(box, child) ==
  IF \E i \in 1..Len(box) : box[i] = child THEN box ELSE Append(box, child)

\* "for i in self._kids: i.hide(); self._main_box.remove(i)"
HideKids(nv, items) ==
  [nv |-> [nv EXCEPT !._main_box = Without(@, {nv._kids[i] : i \in 1..Len(nv._kids)})],
   items |-> [i \in DOMAIN items |-> [items[i] EXCEPT !.visible = FALSE]]]

\* NewView._show_message(text)
_show_message(nv, items, text) ==
  LET h == HideKids(nv, items)
      box == IF h.nv._label_box # None
               THEN Without(h.nv._main_box, {LabelBox}) ELSE h.nv._main_box
  IN [nv |-> [h.nv EXCEPT !._label_box = [text |-> text, visible |-> TRUE],
                          !._main_box = Append(box, LabelBox)],
      items |-> h.items]

\* NewView._is_query_empty(query)
_is_query_empty(query) == query.query = ""

\* the message update_with_query shows for a query without results
EmptyMessage(query) ==
  IF _is_query_empty(query)
    THEN IF query.mountpoints = "/" THEN "Your Journal is empty"
         ELSE IF query.mountpoints = DocumentsPath
           THEN "Your documents folder is empty"
         ELSE "This device is empty"
    ELSE "No matching entries"

\* the loop of update_with_query over the entries read: an entry that is no
\* child gets its view from _view_dict, packed, shown and updated, or a new
\* view, which is appended to _kids and registered under a non-empty uid
RECURSIVE ShowResults(_, _, _)
ShowResults(results, nv, items) ==
  IF results = <<>> THEN [nv |-> nv, items |-> items]
  ELSE LET metadata == Head(results) IN
    IF metadata.is_child
      THEN ShowResults(Tail(results), nv, items)
    ELSE IF metadata.uid \in DOMAIN nv._view_dict
      THEN LET i == nv._view_dict[metadata.uid] IN
           ShowResults(Tail(results),
             [nv EXCEPT !._main_box = pack_start(@, i)],
             [items EXCEPT ![i] =
                ItemView_update([items[i] EXCEPT !.visible = TRUE], metadata)])
    ELSE LET i == Len(nv._kids) + 1
             v == [ItemView_init(metadata) EXCEPT !.visible = TRUE]
         IN ShowResults(Tail(results),
              [nv EXCEPT !._main_box = pack_start(@, i),
                         !._kids = Append(@, i),
                         !._view_dict =
                           IF metadata.uid # ""
                             THEN [u \in DOMAIN @ \cup {metadata.uid} |->
                                     IF u = metadata.uid THEN i ELSE @[u]]
                             ELSE @],
              Append(items, v))

\* NewView.update_with_query(query), with the entries model.find reads out
update_with_query(query, results) ==
  /\ LET h == HideKids(newview, itemviews)
         nv == IF h.nv._label_box # None
                 THEN [h.nv EXCEPT !._label_box.visible = FALSE] ELSE h.nv
         out == IF results = <<>>
                  THEN _show_message(nv, h.items, EmptyMessage(query))
                  ELSE ShowResults(results, nv, h.items)
     IN /\ newview' = out.nv
        /\ itemviews' = out.items
  /\ result' = Result("update_with_query", NoArgs, "", None)
  /\ effects' = <<>>
  /\ UNCHANGED <<psvars, cachevars, loopvars, batteryvars, displayvars>>

\* a button press on the expand icon of the item view i, which is on screen
_expand_cb(i) ==
  /\ i \in 1..Len(itemviews)
  /\ itemviews[i].visible
  /\ itemviews' = [itemviews EXCEPT ![i] = ItemView_expand_cb(@)]
  /\ result' = Result("_expand_cb", NoArgs, "", None)
  /\ effects' = <<>>
  /\ UNCHANGED <<newview, psvars, cachevars, loopvars, batteryvars, displayvars>>

(* ------------------------------------- extensions/deviceicon/brightness.py *)

\* what the brightness model reports: get_brightness() and get_max_brightness()
BrightnessModels ==
  {r \in [brightness : 0..MaxBrightness, max : 0..MaxBrightness] :
     r.brightness <= r.max}

\* math.ceil(float(n) / d) for n >= 0 and d > 0
Ceil(n, d) == (n + d - 1) \div d

\* '{:03d}'.format(n): the decimal digits of n, padded with zeros to three
Format03d(n) ==
  IF n < 1000 THEN <<(n \div 100) % 10, (n \div 10) % 10, n % 10>>
  ELSE <<n \div 1000>> \o <<(n \div 100) % 10, (n \div 10) % 10, n % 10>>

IconName(prefix, digits) == [prefix |-> prefix, digits |-> digits]

Mut_icon_number(b, max) == Ceil(b * 3, max) * 33

\* icon_number of _update_output_info, for max > 0
icon_number(b, max) ==
  LET n == Ceil(b * 3, max) * 33 IN IF n = 99 THEN 100 ELSE n

\* DeviceView._update_output_info(): the division raises ZeroDivisionError for
\* a maximum of 0, and the icon keeps its name
\* (the fields last and prev are history: the brightness and the icon name of
\* the latest run that set the name, and of the run before it)
_update_output_info(icon, m) ==
  IF m.max = 0
    THEN [exc |-> "ZeroDivisionError", icon |-> icon]
    ELSE LET name == IconName("brightness-",
                              Format03d(icon_number(m.brightness, m.max)))
         IN [exc |-> "",
             icon |-> [icon EXCEPT !.icon_name = name,
                                   !.prev = icon.last,
                                   !.last = [type |-> "shown",
                                             brightness |-> m.brightness,
                                             icon_name |-> name]]]

\* no DeviceView of the display yet
NoTrayIcon ==
  [built |-> FALSE, icon_name |-> IconName("", <<>>), last |-> None, prev |-> None]

\* DeviceView.__init__(label): TrayIcon.__init__(icon_name=_ICON_NAME), the
\* handler of brightness_changed is connected, then _update_output_info()
DisplayDeviceView_init ==
  /\ ~trayicon.built
  /\ LET o == _update_output_info(
                [trayicon EXCEPT !.built = TRUE,
                                 !.icon_name = IconName("brightness", <<>>)],
                brightness)
     IN /\ trayicon' = o.icon
        /\ result' = Result("DeviceView.__init__", [model |-> brightness], o.exc, None)
  /\ effects' = <<>>
  /\ UNCHANGED <<brightness, psvars, cachevars, loopvars, batteryvars, journalvars>>

\* The display's brightness becomes b and the model sends brightness_changed:
\* __brightness_changed_cb runs _update_output_info() where a view is connected.
__brightness_changed_cb(b) ==
  /\ b \in 0..brightness.max
  /\ b # brightness.brightness
  /\ brightness' = [brightness EXCEPT !.brightness = b]
  /\ IF trayicon.built
       THEN LET o == _update_output_info(trayicon, brightness') IN
            /\ trayicon' = o.icon
            /\ result' = Result("__brightness_changed_cb", [model |-> brightness'],
                                o.exc, None)
       ELSE UNCHANGED <<trayicon, result>>
  /\ effects' = <<>>
  /\ UNCHANGED <<psvars, cachevars, loopvars, batteryvars, journalvars>>

\* no PresenceService yet, nothing delivered
InitService ==
  /\ _ps = 0
  /\ instances = 0
  /\ returned_ps = {}
  /\ _activity_cache = None
  /\ _buddy_cache = EmptyDict
  /\ _objcache = EmptyDict
  /\ next_oid = 1
  /\ delivered = <<>>
  /\ idle = <<>>
  /\ ran = <<>>
  /\ emitted = <<>>
  /\ effects = <<>>
  /\ result = NoResult

\* a battery in any state, no view of it yet
InitBattery ==
  /\ model \in BatteryModels
  /\ notify = FALSE
  /\ view = NoView

\* the journal's NewView, with nothing shown yet
InitJournal ==
  /\ newview = NewView_init
  /\ itemviews = <<>>

\* a display at any brightness, no tray icon for it yet
InitDisplay ==
  /\ brightness \in BrightnessModels
  /\ trayicon = NoTrayIcon

\* one battery and one display, left as they are
FixedBattery ==
  /\ model = [level |-> 0, charging |-> FALSE, discharging |-> FALSE]
  /\ notify = FALSE
  /\ view = NoView
FixedDisplay ==
  /\ brightness = [brightness |-> 0, max |-> MaxBrightness]
  /\ trayicon = NoTrayIcon

\* the presence service alone, or the journal's view alone
InitPresence == InitService /\ FixedBattery /\ InitJournal /\ FixedDisplay

\* the battery view alone, the display's tray icon alone
InitBatteryView == InitService /\ InitBattery /\ InitJournal /\ FixedDisplay
InitDisplayView == InitService /\ FixedBattery /\ InitJournal /\ InitDisplay

Init == InitService /\ InitBattery /\ InitJournal /\ InitDisplay

\* the facade's instance and the forwarding of bus events to GObject signals
NextEvents ==
  \/ \E allow \in BOOLEAN : get_instance(allow)
  \/ \E p \in Paths : _buddy_appeared_cb(p)
  \/ \E p \in Paths : _buddy_disappeared_cb(p)
  \/ \E a \in ActivityPaths, b \in BuddyPaths, m \in Messages :
       _activity_invitation_cb(a, b, m)
  \/ \E c \in Channels :
       _private_invitation_cb(c.bus_name, c.connection, c.channel, c.chan_type)
  \/ \E p \in Paths : _activity_appeared_cb(p)
  \/ \E p \in Paths : _activity_disappeared_cb(p)
  \/ idle_dispatch
  \/ \E p \in Paths : get(p)

\* the facade's instance, the lookups through the object cache and the
\* offline stand-in
NextLookups ==
  \/ \E allow \in BOOLEAN : get_instance(allow)
  \/ \E p \in Paths : get(p)
  \/ \E reply \in BusReplies : get_activities(reply)
  \/ \E reply \in BusReplies : get_buddies(reply)
  \/ \E rh, eh \in Handlers \cup {None}, reply \in BusReplies :
       get_activities_async(rh, eh, reply)
  \/ \E rh, eh \in Handlers \cup {None}, reply \in BusReplies :
       get_buddies_async(rh, eh, reply)
  \/ \E m \in OfflineMethods, args \in OfflineArgLists :
       /\ m = "ShareActivity" => Len(args) = Len(ShareArgs(None, None))
       /\ _OfflineInterface_call(m, args)

\* the facade's instance (get_instance() with its default argument) and the
\* activity it tracks
NextActivities ==
  \/ get_instance(FALSE)
  \/ \E a \in ActivityIds, conns \in ConnectionLists : get_activity(a, conns)
  \/ \E a \in Accounts, h \in RoomHandles :
       get_activity_by_handle(ConnectionPath(a), h)

\* the facade's instance, the three operations that track an activity (the
\* connection manager knowing at most one account) and the callbacks of a share
NextSharing ==
  \/ get_instance(FALSE)
  \/ \E a \in ActivityIds, conns \in {c \in ConnectionLists : Len(c) <= 1} :
       get_activity(a, conns)
  \/ \E a \in Accounts, h \in RoomHandles :
       get_activity_by_handle(ConnectionPath(a), h)
  \/ \E act \in SharingActivities, props \in {None} \cup PropertyDicts,
         private \in BOOLEAN, a \in Accounts :
       share_activity(act, props, private, a)
  \/ __share_activity_cb
  \/ \E e \in {"org.freedesktop.Telepathy.Error.NetworkError"} :
       __share_activity_error_cb(e)

\* the facade's instance (get_instance() with its default argument) and its
\* buddy cache
NextBuddies ==
  \/ get_instance(FALSE)
  \/ \E a \in Accounts, h \in Handles : get_buddy(AccountPath(a), ContactId(h))
  \/ \E a \in Accounts, h \in Handles, v \in ValidAccountLists, c \in ConnectionMaps :
       get_buddy_by_telepathy_handle(ConnectionPath(a), h, v, c)

\* the battery device view
NextBattery ==
  \/ DeviceView_init
  \/ \E m \in BatteryModels : ModelChange(m)
  \/ _battery_status_changed_cb

\* the journal's view
NextJournal ==
  \/ \E q \in Queries, rs \in ResultSets :
       /\ rs # <<>> => q = [query |-> "", mountpoints |-> "/"]
       /\ update_with_query(q, rs)
  \/ \E i \in 1..Len(itemviews) : _expand_cb(i)

\* the display's tray icon
NextDisplay ==
  \/ DisplayDeviceView_init
  \/ \E b \in 0..MaxBrightness : __brightness_changed_cb(b)

Next ==
  \/ NextEvents \/ NextLookups \/ NextActivities \/ NextSharing \/ NextBuddies
  \/ NextBattery \/ NextJournal \/ NextDisplay

Spec == Init /\ [][Next]_vars
SpecEvents == InitPresence /\ [][NextEvents]_vars
SpecLookups == InitPresence /\ [][NextLookups]_vars
SpecActivities == InitPresence /\ [][NextActivities]_vars
SpecSharing == InitPresence /\ [][NextSharing]_vars
SpecBuddies == InitPresence /\ [][NextBuddies]_vars
SpecBattery == InitBatteryView /\ [][NextBattery]_vars
SpecJournal == InitPresence /\ [][NextJournal]_vars
SpecDisplay == InitDisplayView /\ [][NextDisplay]_vars

(* ================================================================ claims *)

NotAvailable == "org.freedesktop.Telepathy.Error.NotAvailable"
OfflineMessage == PyStr("PresenceService Interface not available")

\* C1: a lookup of a Buddy or Activity path through get returns a proxy, and it
\* is the one the object cache holds under that path (so that two lookups of
\* the path give the identical object).
C1_LookupYieldsCachedProxy ==
  (result.op = "get" /\ result.arg.object_path \in BuddyPaths \cup ActivityPaths)
    => /\ result.exc = ""
       /\ result.arg.object_path \in DOMAIN _objcache
       /\ _objcache[result.arg.object_path] = result.val

\* C2, as claimed: every call on the offline stand-in raises the
\* 'PresenceService Interface not available' DBusException.
C2_EveryOfflineCallRaises ==
  result.op \in OfflineMethods
    => result.exc = "DBusException" /\ result.val = OfflineMessage

\* C2, amended: the six query methods raise that DBusException whatever their
\* arguments; ShareActivity raises no DBusException: called with its six
\* arguments it calls error_handler once, with an IOError, and its outcome is
\* the handler's.
C2_OfflineCalls ==
  /\ result.op \in OfflineMethods \ {"ShareActivity"}
       => /\ result.exc = "DBusException"
          /\ result.val = OfflineMessage
          /\ effects = <<>>
  /\ result.op = "ShareActivity"
       => LET args == result.arg.args IN
          /\ result.exc # "DBusException"
          /\ (Len(args) = 6 /\ args[6].type = "function")
               => /\ Len(effects) = 1
                  /\ effects[1].what = "error_handler"
                  /\ effects[1].arg.type = "IOError"
                  /\ args[6].behaviour = "returns"
                       => result.exc = "" /\ result.val = HandlerValue
                  /\ args[6].behaviour = "raises" => result.exc = "HandlerError"
          /\ ~(Len(args) = 6 /\ args[6].type = "function")
               => result.exc = "TypeError" /\ effects = <<>>

\* ShareActivity has called the error handler and returned what it returned
C2_Witness ==
  /\ result.op = "ShareActivity"
  /\ result.exc = ""
  /\ Len(effects) = 1

\* C3: with the presence service unavailable (its bus calls fail), a bus query
\* of the PresenceService that get_instance(allow_offline_iface=True) returned
\* is answered by the offline stand-in, that is with its DBusException.
C3_OfflineFallback ==
  ( /\ result.op = "get_activities"
    /\ result.arg.reply.exc = "DBusException"
    /\ [allow_offline_iface |-> TRUE, oid |-> _ps] \in returned_ps )
    => result.exc = "DBusException" /\ result.val = OfflineMessage

\* the first connected connection whose GetActivity does not answer
\* NotAvailable; 0 when there is none
FirstAnswering(conns) ==
  LET S == {i \in 1..Len(conns) : conns[i].connected /\ conns[i].answer # NotAvailable}
  IN IF S = {} THEN 0 ELSE CHOOSE i \in S : \A j \in S : i <= j

\* the connected connections before position n that answer NotAvailable
Unavailable(conns, n) ==
  {i \in 1..Len(conns) : i < n /\ conns[i].connected /\ conns[i].answer = NotAvailable}

\* C4, as claimed: no DBusException of a bus call inside a query reaches the
\* caller.
C4_NoDBusExceptionEscapes ==
  result.op \in {"get_activities", "get_buddies", "get_activity"}
    => result.exc # "DBusException"

\* C4, amended: get_activity, with no activity tracked, catches and logs the
\* DBusException of GetActivity named NotAvailable and goes on to the next
\* connected account; a DBusException of any other name reaches the caller,
\* and then no activity is tracked.
C4_OnlyNotAvailableCaught ==
  [][(result'.op = "get_activity" /\ _activity_cache = None) =>
       LET conns == result'.arg.conns
           d == FirstAnswering(conns)
           caught == Unavailable(conns, IF d = 0 THEN Len(conns) + 1 ELSE d)
       IN /\ result'.exc = "DBusException" <=> (d # 0 /\ conns[d].answer # "room")
          /\ result'.exc = "DBusException"
               => result'.val = PyStr(conns[d].answer) /\ _activity_cache' = None
          /\ Len(effects') = Cardinality(caught)
          /\ \A i \in 1..Len(effects') :
               effects'[i] = Effect("logging.debug", PyStr(NotAvailable))
    ]_vars

\* a NotAvailable was caught and logged, and a later account had the activity
C4_Witness ==
  /\ result.op = "get_activity"
  /\ result.exc = ""
  /\ result.val # None
  /\ Len(effects) = 1

\* the tasks of the idle queue, by number
Pending == {idle[i].tid : i \in 1..Len(idle)}

\* the signal an idle task is to emit
SignalOf(fn) ==
  CASE fn = "_emit_buddy_appeared_signal" -> "buddy-appeared"
    [] fn = "_emit_buddy_disappeared_signal" -> "buddy-disappeared"
    [] fn = "_emit_activity_invitation_signal" -> "activity-invitation"
    [] fn = "_emit_private_invitation_signal" -> "private-invitation"
    [] fn = "_emit_activity_appeared_signal" -> "activity-appeared"
    [] fn = "_emit_activity_disappeared_signal" -> "activity-disappeared"

EmissionsOf(t) ==
  {i \in 1..Len(emitted) :
     emitted[i].tid = t /\ emitted[i].signal = SignalOf(delivered[t].fn)}

\* C5: every bus event whose idle task the main loop has run has been followed
\* by exactly one emission of the corresponding signal.
C5_EveryEventForwardedOnce ==
  \A t \in 1..Len(delivered) : ran[t] >= 1 => Cardinality(EmissionsOf(t)) = 1

\* C6: a callback only adds one idle task for its event: it emits nothing and
\* leaves the object cache as it is; signals come from dispatched idle tasks
\* only, and a task is dispatched once and then leaves the idle queue.
C6_CallbackOnlyEnqueues ==
  /\ [](\A t \in 1..Len(delivered) :
          /\ ran[t] <= 1
          /\ ran[t] = 0 <=> t \in Pending)
  /\ [](\A i \in 1..Len(emitted) :
          emitted[i].tid \in 1..Len(delivered) /\ ran[emitted[i].tid] >= 1)
  /\ [][Len(delivered') > Len(delivered) =>
          /\ delivered' = Append(delivered, delivered'[Len(delivered')])
          /\ idle' = Append(idle, [tid |-> Len(delivered'),
                                   fn |-> delivered'[Len(delivered')].fn,
                                   args |-> delivered'[Len(delivered')].args])
          /\ emitted' = emitted
          /\ _objcache' = _objcache
          /\ next_oid' = next_oid
      ]_vars

\* the first event's task has run and emitted, the second event's waits
C6_Witness ==
  /\ Len(delivered) = 2
  /\ ran = <<1, 0>>
  /\ Pending = {2}
  /\ Len(emitted) = 1

C8_BuddyOrNone ==
  result.op = "get_buddy_by_telepathy_handle" =>
    LET a == result.arg
        found == {i \in 1..Len(a.account_paths) :
                    a.conn_of[a.account_paths[i]] = a.tp_conn_path}
    IN /\ result.exc = ""
       /\ IF found = {}
            THEN result.val = None
            ELSE /\ result.val.type = "Buddy"
                 /\ result.val.contact_id = ContactId(a.handle)

\* C9: once the view is built and no notify:: signal is outstanding, the
\* progress bar's fraction is the model's level / 100, and the status label
\* shows a percentage when the battery charges or discharges, which is the
\* model's level.
C9_PaletteShowsLevel ==
  (view.built /\ ~notify) =>
    /\ view.fraction.num * 100 = model.level * view.fraction.den
    /\ view.status.has_percent <=> (model.charging \/ model.discharging)
    /\ view.status.has_percent => view.status.percent = model.level

\* a notify:: handler has brought the palette to a full, charging battery
C9_Witness ==
  /\ result.op = "_battery_status_changed_cb"
  /\ ~notify
  /\ model.level = 100
  /\ model.charging
  /\ view.status = LabelText("Battery charging", TRUE, 100)

\* C10: get_instance constructs one PresenceService and returns it on every
\* call, whatever allow_offline_iface is.
C10_OneInstance ==
  /\ instances <= 1
  /\ \A r, q \in returned_ps : r.oid = q.oid
  /\ result.op = "get_instance" => (_ps # 0 /\ result.val = PresenceServiceObj(_ps))

\* get_instance has been called with both values of allow_offline_iface, and a
\* bus event in between
C10_Witness ==
  /\ Cardinality(returned_ps) = 2
  /\ Len(delivered) > 0
  /\ result.op = "get_instance"

\* the proxies the object cache holds for the paths of a reply, in order
CachedObjects(paths) ==
  [i \in 1..Len(paths) |->
     IF paths[i] \in DOMAIN _objcache THEN _objcache[paths[i]] ELSE None]

\* C11: get_activities_async and get_buddies_async, called with a reply
\* handler, make their bus call, and its reply invokes exactly one handler
\* once: a successful reply the reply handler, with the list of the cached
\* objects of the reported paths; a failure the error handler when one was
\* given and otherwise only a logged warning, never the reply handler.
C11_OneHandlerPerReply ==
  ( /\ result.op \in {"get_activities_async", "get_buddies_async"}
    /\ result.arg.reply_handler # None )
    => /\ result.exc = ""
       /\ Len(effects) = 1
       /\ IF result.arg.reply.exc = ""
            THEN /\ effects[1].what = "reply_handler"
                 /\ effects[1].arg = PyList(CachedObjects(result.arg.reply.paths))
          ELSE IF result.arg.error_handler # None
            THEN effects[1].what = "error_handler"
          ELSE effects[1].what = "_logger.warn"

\* C12: get_buddy is an identity map that never evicts: a call returns the
\* Buddy the cache holds under its (account_path, contact_id) pair, different
\* pairs hold different Buddy objects, and no step removes or replaces an entry
\* of the buddy cache (so that two calls with the same pair return the
\* identical object).
C12_BuddyIdentityMap ==
  /\ [](\A k1, k2 \in DOMAIN _buddy_cache :
          /\ _buddy_cache[k1].type = "Buddy"
          /\ k1 # k2 => _buddy_cache[k1].oid # _buddy_cache[k2].oid)
  /\ [][/\ \A k \in DOMAIN _buddy_cache :
             k \in DOMAIN _buddy_cache' /\ _buddy_cache'[k] = _buddy_cache[k]
        /\ result'.op = "get_buddy" =>
             LET key == <<result'.arg.account_path, result'.arg.contact_id>> IN
             /\ result'.exc = ""
             /\ key \in DOMAIN _buddy_cache'
             /\ result'.val = _buddy_cache'[key]
             /\ result'.val.account_path = key[1]
             /\ result'.val.contact_id = key[2]
             /\ key \notin DOMAIN _buddy_cache =>
                  \A k \in DOMAIN _buddy_cache : _buddy_cache[k].oid # result'.val.oid
      ]_vars

\* two pairs are cached, and a later get_buddy has returned the first Buddy again
C12_Witness ==
  /\ Cardinality(DOMAIN _buddy_cache) = 2
  /\ result.op = "get_buddy"
  /\ result.val.oid = 1
  /\ next_oid = 3

\* the idle task the main loop dispatched last (tasks run in the order added); 0
\* when none has run
LastRan ==
  LET R == {t \in 1..Len(ran) : ran[t] >= 1}
  IN IF R = {} THEN 0 ELSE CHOOSE t \in R : \A u \in R : u <= t

\* C13: the processing of a buddy-disappeared event for path p runs to its end
\* (the idle task returns False) without creating an object; it has emitted
\* 'buddy-disappeared' at most once, with the Buddy the cache held under p, and
\* p is absent from the object cache afterwards.
C13_DisappearedNeverCreates ==
  result.op = "_emit_buddy_disappeared_signal" =>
    LET t == LastRan
        path == delivered[t].args[1]
    IN /\ result.exc = ""
       /\ result.val = PyFalse
       /\ path \notin DOMAIN _objcache
       /\ Cardinality(EmissionsOf(t)) <= 1
       /\ \A i \in EmissionsOf(t) :
            /\ emitted[i].args[1].type = "Buddy"
            /\ emitted[i].args[1].object_path = path

\* C14: once an activity is tracked, no step replaces or clears it;
\* share_activity with an activity tracked raises ValueError, starts no share
\* and emits nothing, also after the tracked activity's share has failed.
C14_TrackedActivityStays ==
  [][_activity_cache # None =>
       /\ _activity_cache' = _activity_cache
       /\ result'.op = "share_activity" =>
            /\ result'.exc = "ValueError"
            /\ effects' = <<>>
            /\ emitted' = emitted
    ]_vars

\* a share has failed ('activity-shared' emitted with success False), and a
\* later share_activity has been refused
C14_Witness ==
  /\ result.op = "share_activity"
  /\ result.exc = "ValueError"
  /\ _activity_cache # None
  /\ \E i \in SharedSignals(_activity_cache.oid) : emitted[i].args[1] = PyBool(FALSE)

ListedChildren(v) ==
  IF v._expanded_view # None /\ v._expanded_view.visible
    THEN v._expanded_view._store ELSE <<>>

\* the children a metadata mapping names
ChildrenOf(metadata) ==
  IF metadata.children = Absent \/ metadata.children.chars = <<>>
    THEN <<>> ELSE str_split(metadata.children, "|")

\* C16: an entry that a later query shows again keeps its _ItemView, which is
\* registered under the entry's uid and shows the title and the date of the
\* new metadata; once the item has been expanded after that, it lists the
\* children the new metadata's 'children' field names.
C16_ReshownItemListsNewChildren ==
  /\ \A u \in DOMAIN newview._view_dict :
       LET v == itemviews[newview._view_dict[u]] IN
       /\ v._uid = u
       /\ v.shown.uid = u
       /\ v._title_lab = TitleMarkup(v.shown)
       /\ v._date_lab = ElapsedString(v.shown)
  /\ \A i \in 1..Len(itemviews) :
       LET v == itemviews[i] IN
       (v.updated /\ v.expanded_since /\ v._is_expanded)
         => ListedChildren(v) = ChildrenOf(v.shown)

\* the four icons of the display's tray icon
Brightness000 == IconName("brightness-", <<0, 0, 0>>)
Brightness033 == IconName("brightness-", <<0, 3, 3>>)
Brightness066 == IconName("brightness-", <<0, 6, 6>>)
Brightness100 == IconName("brightness-", <<1, 0, 0>>)

\* the number an icon name ends with
NumberOf(name) ==
  name.digits[1] * 100 + name.digits[2] * 10 + name.digits[3]

\* what C17 says of the icon name shown for brightness b of maximum max, and
\* of the name the run before showed
IconFollowsBrightness ==
  LET b == brightness.brightness
      max == brightness.max
  IN /\ trayicon.icon_name \in
          {Brightness000, Brightness033, Brightness066, Brightness100}
     /\ trayicon.icon_name = Brightness000 <=> b = 0
     /\ trayicon.icon_name = Brightness100 <=> 3 * b > 2 * max
     /\ trayicon.prev # None =>
          /\ trayicon.prev.brightness <= b
               => NumberOf(trayicon.prev.icon_name) <= NumberOf(trayicon.icon_name)
          /\ trayicon.prev.brightness >= b
               => NumberOf(trayicon.prev.icon_name) >= NumberOf(trayicon.icon_name)

\* C17, as claimed: for every brightness b and maximum max with 0 <= b <= max,
\* the icon name _update_output_info computes is one of brightness-000, -033,
\* -066, -100; it is brightness-000 exactly when b = 0, brightness-100 exactly
\* when 3*b > 2*max, and it never decreases as b increases.
C17_IconOfBrightness ==
  trayicon.built => IconFollowsBrightness

\* C17, amended: the same for every maximum max >= 1; for a maximum of 0
\* _update_output_info raises ZeroDivisionError and the icon keeps the name
\* 'brightness' it was constructed with.
C17_IconOfBrightnessOfPositiveMax ==
  trayicon.built =>
    IF brightness.max >= 1
      THEN IconFollowsBrightness /\ result.exc = ""
      ELSE /\ trayicon.icon_name = IconName("brightness", <<>>)
           /\ result.exc = "ZeroDivisionError"

\* the brightness has gone up to the maximum and the icon to brightness-100
C17_Witness ==
  /\ trayicon.built
  /\ result.op = "__brightness_changed_cb"
  /\ brightness.brightness = brightness.max
  /\ brightness.max = MaxBrightness
  /\ trayicon.icon_name = Brightness100
  /\ trayicon.prev # None
  /\ trayicon.prev.icon_name = Brightness066
====
